---- MODULE Spec2Model ----
(***************************************************************************)
(* FERN: the self-healing execution loop.                                  *)
(*                                                                         *)
(*   run_goal  (fern/core/agent.py)        the Retry Controller            *)
(*   operate   (fern/core/agent.py)        the Round Controller            *)
(*   run_multi_agent (fern/agents/coordinator.py)  the Coordinator         *)
(*   Learner   (fern/rl/learner.py)        reward, record, select          *)
(*                                                                         *)
(* Strings are sequences of tokens.  Floats are scaled integers: a reward  *)
(* is held in thousandths, human_fb / diff_ratio / retries_ratio in        *)
(* tenths, so that every product of learner.py:16-19 is an integer.        *)
(***************************************************************************)
EXTENDS Integers, Sequences, FiniteSets, TLC

\* ------------------------------------------------------------------ bounds
MaxRetries == 3
MaxRounds == 2
MaxDiff == 25
MaxUpdates == 3

\* ------------------------------------------------------------ value sets
TheGoal == <<"g">>

\* cli.py passes max_retries=3; any int is accepted by run_goal
RetryArgs == -1 .. MaxRetries

\* the tools a task may name (agents/base.py:23); "github" has no executor
Task(id, tool) == [id |-> id, desc |-> <<id>>, tool |-> tool, args |-> << >>]

GoodPlan == <<Task("T1", "github"), Task("T2", "shell"), Task("T3", "code")>>

\* what complete() may hand to make_plan (tools/llm.py:16-30):
\* a raised transport error, or a text that json.loads turns into ...
PlannerOutputs ==
    { [kind |-> "error"],
      [kind |-> "unparsable"],
      [kind |-> "not_object"],
      [kind |-> "no_tasks"],
      [kind |-> "tasks", tasks |-> <<>>],
      [kind |-> "tasks", tasks |-> GoodPlan] }

RoundArgs == -1 .. MaxRounds

\* what complete() may hand to review_and_suggest (reviewer_agent.py:30-37):
\* a raised transport error, or a text that json.loads turns into ...
FollowUp(id, d) == [id |-> id, desc |-> d, tool |-> "code"]

ReviewerOutputs ==
    { [kind |-> "error"],
      [kind |-> "unparsable"],
      [kind |-> "not_object"],
      [kind |-> "object", follow |-> << >>],
      [kind |-> "object", follow |-> [tasks |-> <<>>]],
      [kind |-> "object", follow |-> [tasks |-> <<FollowUp("R1", <<"a">>)>>]],
      [kind |-> "object",
       follow |-> [tasks |-> <<FollowUp("R1", <<"b">>), [id |-> "R2"],
                               FollowUp("R3", <<"a">>)>>]] }

STRATEGIES == {"retry_small_patch", "retry_rewrite_file", "run_formatter_then_patch"}

\* what may happen in apply_fix_strategy (fix_strategies.py:10-17): complete()
\* raises; its text is no JSON; the JSON has no usable change entries; write_file
\* fails; or every change is written
FixOutputs == {"error", "unparsable", "malformed", "write_error", "patched"}

VARIABLES
    \* ---- run_goal frame
    rg_pc,          \* "idle" | "loop" | "operate" | "check" | "returned" | "raised"
    rg_goal,
    max_retries,
    attempt,
    result,
    \* ---- operate frame
    op_pc,          \* "idle" | "plan" | "exec" | "tests" | "lint" | "type" | "score"
                    \* | "fix" | "apply" | "record" | "history" | "raised"
    op_goal,
    start,
    plan,
    results,
    tests_pass,
    lint_ok,
    type_ok,
    reward,
    ctx,
    action,
    bandit,         \* the weights of this round's Learner().bandit
    \* ---- the repository's .fern directory and clock
    history,        \* .fern/history.json
    store,          \* .fern/experience.duckdb
    now,
    \* ---- run_multi_agent frame
    co_pc,          \* "idle" | "loop" | "plan" | "build" | "review" | "decide"
                    \* | "returned" | "raised"
    co_goal,        \* the local `goal`, rebound at coordinator.py:44
    max_rounds,
    r,
    round_rec,
    summary,
    \* ---- a direct call of Learner.compute_reward
    rw_pc,          \* "idle" | "done"
    rw_args,
    rw_value,
    \* ---- a Learner driven directly through Learner.record
    ln_pc,          \* "idle" | "returned" | "raised": how the last record call ended
    ln_store,
    ln_bandit,
    \* ---- two goal sessions, each on its own repository, inside Learner.record
    gs_pc,          \* per session: "idle" | "add" | "update" | "returned" | "raised"
    gs_args,        \* per session: the context, action and reward of its record call
    gs_store,       \* per session: <repo>/.fern/experience.duckdb
    gs_bandit,      \* per session: the weights of its Learner().bandit
    \* ---- observation of the calls made (not program state)
    op_calls,       \* operate invocations of the current run_goal
    rg_rounds,      \* the records operate returned to the current run_goal
    trace,          \* collaborator calls of the current round, in order
    checks,         \* the exit codes of the round's pytest, ruff and mypy runs, in order
    fix_calls,      \* the round's select_action and apply_fix_strategy calls with
                    \* what they were given and returned, in order
    co_log,         \* the coordinator's closing log line, if any
    planned,        \* the goals handed to plan_for_goal, in call order
    built,          \* the number of execute_tasks calls
    reviewed,       \* the goals handed to review_and_suggest, in call order
    qc_runs,        \* per run_quality_checks call, the exit codes of its pytest, ruff
                    \* and mypy runs
    plan_calls      \* the goals handed to make_plan by the current run_goal

rg_vars == <<rg_pc, rg_goal, max_retries, attempt, result>>
op_vars == <<op_pc, op_goal, start, plan, results, tests_pass, lint_ok, type_ok,
             reward, ctx, action, bandit>>
disk_vars == <<history, store, now>>
co_vars == <<co_pc, co_goal, max_rounds, r, round_rec, summary>>
rw_vars == <<rw_pc, rw_args, rw_value>>
ln_vars == <<ln_pc, ln_store, ln_bandit>>
gs_vars == <<gs_pc, gs_args, gs_store, gs_bandit>>
obs_vars == <<op_calls, rg_rounds, trace, checks, fix_calls>>
co_obs == <<co_log, planned, built, reviewed, qc_runs>>
vars == <<rg_vars, op_vars, disk_vars, co_vars, rw_vars, ln_vars, gs_vars, obs_vars, co_obs,
          plan_calls>>

\* shell.py:6: the exit code of a check command; 0 is a pass
ExitCodes == {0, 1}

\* the goal sessions that run at the same time, named by their repositories
Sessions == {"repoA", "repoB"}

SessionsIdle == \A s \in Sessions : gs_pc[s] = "idle"

\* a local that holds nothing yet
None == "none"
Unset == << >>

\* ---------------------------------------------------------------- Learner

Max(a, b) == IF a >= b THEN a ELSE b
Min(a, b) == IF a <= b THEN a ELSE b

\* learner.py:15-20.  tests_pass is the float operate passes (0.0 or 1.0);
\* human_fb, diff_ratio, retries_ratio in tenths; the value in thousandths.
compute_reward_unclamped(tp, lo, ty, human_fb, diff_ratio, retries_ratio) ==
    600 * tp + 200 * (IF lo THEN 1 ELSE 0) + 100 * (IF ty THEN 1 ELSE 0)
        + (100 * (human_fb + 10)) \div 20 - 5 * diff_ratio - 5 * retries_ratio

compute_reward_raw_feedback(tp, lo, ty, human_fb, diff_ratio, retries_ratio) ==
    Max(0, Min(1000, 600 * tp + 200 * (IF lo THEN 1 ELSE 0)
                        + 100 * (IF ty THEN 1 ELSE 0)
                        + 10 * human_fb - 5 * diff_ratio - 5 * retries_ratio))

compute_reward(tp, lo, ty, human_fb, diff_ratio, retries_ratio) ==
    LET r0 == 600 * tp + 200 * (IF lo THEN 1 ELSE 0) + 100 * (IF ty THEN 1 ELSE 0)
        r1 == r0 + (100 * (human_fb + 10)) \div 20
        r2 == r1 - 5 * diff_ratio
        r3 == r2 - 5 * retries_ratio
    IN  Max(0, Min(1000, r3))

\* float(tests_pass), agent.py:62
Float(b) == IF b THEN 1 ELSE 0

ScoringCountsEpisodes(tp, lo, ty) == compute_reward(Float(tp), lo, ty, 0, 1, Len(store))

\* agent.py:61-68: human_fb=0.0, diff_ratio=0.1, retries_ratio=0.0
Scoring(tp, lo, ty) == compute_reward(Float(tp), lo, ty, 0, 1, 0)

\* A context is a Python dict: its (key, value) items in insertion order.
Items(c) == {c[i] : i \in 1 .. Len(c)}

\* ThompsonBandit(): no arm has been observed; every arm starts at (1, 1)
FreshBandit == << >>

ContextKeyInsertionOrder(c) == c

\* the canonical key of a context mapping: order-independent, its items as a set
ContextKey(c) == Items(c)

\* the (success_weight, failure_weight) of an arm, in thousandths
Arm(b, key, a) == IF <<key, a>> \in DOMAIN b THEN b[<<key, a>>] ELSE <<1000, 1000>>

BanditUpdateSuccessOnly(b, c, a, rw) ==
    LET k == <<ContextKey(c), a>>
        w == Arm(b, ContextKey(c), a)
        n == <<w[1] + rw, w[2]>>
    IN  [x \in DOMAIN b \cup {k} |-> IF x = k THEN n ELSE b[x]]

\* bandit.update(context, action, reward)
BanditUpdate(b, c, a, rw) ==
    LET k == <<ContextKey(c), a>>
        w == Arm(b, ContextKey(c), a)
        n == <<w[1] + rw, w[2] + (1000 - rw)>>
    IN  [x \in DOMAIN b \cup {k} |-> IF x = k THEN n ELSE b[x]]

\* learner.py:22-26: the episode record() builds
Episode(repo, c, a, res, rw, ts) ==
    [ts |-> ts, repo |-> repo, context |-> c, action |-> a, result |-> res, reward |-> rw]

\* how ExperienceStore.add may end: the episode is written, or the write fails
\* and the failure is reported to the caller (an exception)
StoreOutcomes == {"written", "write_failed"}

\* learner.py:24: self.store.add(ep)
RecordStore(st, w, ep) == IF w = "written" THEN Append(st, ep) ELSE st

RecordBanditSkipsUpdate(b, w, c, a, rw) == b

\* learner.py:24-25: self.bandit.update(context, action, reward) is reached only
\* when store.add has returned
RecordBandit(b, w, c, a, rw) == IF w = "written" THEN BanditUpdate(b, c, a, rw) ELSE b

RECURSIVE recent(_, _)
\* ExperienceStore.recent(limit): the newest episodes, at most `limit` of them,
\* oldest of them first; read from the newest end of the store backwards
recent(st, limit) ==
    IF limit <= 0 \/ st = <<>> THEN <<>>
    ELSE Append(recent(SubSeq(st, 1, Len(st) - 1), limit - 1), st[Len(st)])

LearnerRecentDefaultLimit(st, limit) == recent(st, 50)

\* learner.py:28-29: return self.store.recent(limit)
LearnerRecent(st, limit) == recent(st, limit)

\* ------------------------------------------------------------- make_plan

\* planner.py:14-21
FallbackPlan(goal) == <<[id |-> "T0", desc |-> goal, tool |-> "code", args |-> << >>]>>

make_plan(out, goal) ==
    IF out.kind = "tasks" THEN out.tasks ELSE FallbackPlan(goal)

\* ---------------------------------------------------------------- run_goal

RetryGuardAtLeastOnce(a, m) == a < m \/ a = 0

RetryGuardOffByOne(a, m) == a <= m

\* agent.py:105
RetryGuard(a, m) == a < m

AllPassTestsOnly(rec) == rec.tests_pass

\* agent.py:110
AllPass(rec) == rec.tests_pass /\ rec.lint_ok /\ rec.type_ok

\* agent.py:81-89 and state.py:16 (append_history sets entry["ts"] on the same dict)
RoundRecord(goal, tasks, tp, lo, ty, rw, el, ts) ==
    [goal |-> goal, tasks |-> tasks, tests_pass |-> tp, lint_ok |-> lo,
     type_ok |-> ty, reward |-> rw, elapsed |-> el, ts |-> ts]

OpReset ==
    /\ op_pc' = "idle"
    /\ op_goal' = Unset /\ start' = 0 /\ plan' = <<>> /\ results' = <<>>
    /\ tests_pass' = FALSE /\ lint_ok' = FALSE /\ type_ok' = FALSE
    /\ reward' = 0 /\ ctx' = Unset /\ action' = None /\ bandit' = FreshBandit

Init ==
    /\ rg_pc = "idle" /\ rg_goal = Unset /\ max_retries = 0 /\ attempt = 0
    /\ result = << >>
    /\ op_pc = "idle"
    /\ op_goal = Unset /\ start = 0 /\ plan = <<>> /\ results = <<>>
    /\ tests_pass = FALSE /\ lint_ok = FALSE /\ type_ok = FALSE
    /\ reward = 0 /\ ctx = Unset /\ action = None /\ bandit = FreshBandit
    /\ history = <<>> /\ store = <<>> /\ now = 0
    /\ op_calls = 0 /\ rg_rounds = <<>> /\ trace = <<>>
    /\ rw_pc = "idle" /\ rw_args = Unset /\ rw_value = 0
    /\ co_pc = "idle" /\ co_goal = Unset /\ max_rounds = 0 /\ r = 0
    /\ round_rec = << >> /\ summary = << >>
    /\ co_log = None /\ planned = <<>> /\ built = 0 /\ reviewed = <<>> /\ qc_runs = <<>>
    /\ ln_pc = "idle" /\ ln_store = <<>> /\ ln_bandit = FreshBandit
    /\ checks = <<>> /\ fix_calls = <<>>
    /\ gs_pc = [s \in Sessions |-> "idle"]
    /\ gs_args = [s \in Sessions |-> Unset]
    /\ gs_store = [s \in Sessions |-> <<>>]
    /\ gs_bandit = [s \in Sessions |-> FreshBandit]
    /\ plan_calls = <<>>

\* agent.py:98-103
CallRunGoal ==
    /\ rg_pc = "idle"
    /\ co_pc = "idle"
    /\ rw_pc = "idle"
    /\ ln_pc = "idle"
    /\ SessionsIdle
    /\ \E m \in RetryArgs :
        /\ max_retries' = m
        /\ rg_goal' = TheGoal
    /\ attempt' = 0
    /\ result' = << >>
    /\ rg_pc' = "loop"
    /\ op_calls' = 0
    /\ rg_rounds' = <<>>
    /\ plan_calls' = <<>>
    /\ UNCHANGED <<op_vars, disk_vars, trace, checks, fix_calls>>
    /\ UNCHANGED <<co_vars, rw_vars, ln_vars, gs_vars, co_obs>>

OperateGoalWithFailure(goal, last) ==
    IF last = << >> THEN goal
    ELSE goal \o <<" (fix: ", (IF ~last.tests_pass THEN "tests" ELSE "lint"), ")">>

\* agent.py:108: operate(repo, goal); `last` is run_goal's local `result`, the
\* record of the round before, of which nothing is handed on
OperateGoal(goal, last) == goal

\* agent.py:105-108: the loop test; entering the body calls operate
RunGoalLoop ==
    /\ rg_pc = "loop"
    /\ IF RetryGuard(attempt, max_retries)
       THEN /\ attempt' = attempt + 1
            /\ rg_pc' = "operate"
            \* agent.py:23-27: operate's prologue
            /\ op_pc' = "plan"
            /\ op_goal' = OperateGoal(rg_goal, result)
            /\ start' = now
            /\ now' = now + 1
            /\ op_calls' = op_calls + 1
            /\ trace' = <<>>
            /\ checks' = <<>>
            /\ fix_calls' = <<>>
            /\ UNCHANGED rg_rounds
            /\ UNCHANGED <<rg_goal, max_retries, result, plan, results, tests_pass,
                           lint_ok, type_ok, reward, ctx, action, bandit, history, store>>
       ELSE /\ rg_pc' = "returned"
            /\ UNCHANGED <<rg_goal, max_retries, attempt, result, op_vars, disk_vars,
                           obs_vars>>
    /\ UNCHANGED <<co_vars, rw_vars, ln_vars, gs_vars, plan_calls, co_obs>>

\* agent.py:30-36: snapshot, make_plan, ensure_branch, Learner(...)
OpPlan ==
    /\ op_pc = "plan"
    /\ plan_calls' = Append(plan_calls, op_goal)
    /\ \E out \in PlannerOutputs :
        IF out.kind = "error"
        THEN /\ op_pc' = "raised"
             /\ trace' = Append(trace, "make_plan")
             /\ UNCHANGED <<op_goal, start, plan, results, tests_pass, lint_ok, type_ok,
                            reward, ctx, action, bandit>>
        ELSE /\ plan' = make_plan(out, op_goal)
             /\ results' = <<>>
             /\ bandit' = FreshBandit
             /\ op_pc' = "exec"
             /\ trace' = Append(trace, "make_plan")
             /\ UNCHANGED <<op_goal, start, tests_pass, lint_ok, type_ok, reward, ctx,
                            action>>
    /\ UNCHANGED <<rg_vars, disk_vars, op_calls, rg_rounds, checks, fix_calls>>
    /\ UNCHANGED <<co_vars, rw_vars, ln_vars, gs_vars, co_obs>>

\* agent.py:39-47: one iteration of the task loop
ToolCall(t) ==
    IF t.tool \in {"code", "fs"} THEN <<"apply_code_task">>
    ELSE IF t.tool = "shell" THEN <<"run_tests:task">>
    ELSE <<>>

OpExecTask ==
    /\ op_pc = "exec"
    /\ IF Len(results) < Len(plan)
       THEN LET t == plan[Len(results) + 1] IN
            /\ results' = Append(results, t)
            /\ trace' = trace \o ToolCall(t)
            /\ UNCHANGED op_pc
       ELSE /\ op_pc' = "tests"
            /\ UNCHANGED <<results, trace>>
    /\ UNCHANGED <<op_goal, start, plan, tests_pass, lint_ok, type_ok, reward, ctx,
                   action, bandit>>
    /\ UNCHANGED <<rg_vars, disk_vars, op_calls, rg_rounds, checks, fix_calls>>
    /\ UNCHANGED <<co_vars, rw_vars, ln_vars, gs_vars, plan_calls, co_obs>>

\* agent.py:51
OpRunTests ==
    /\ op_pc = "tests"
    /\ \E rc \in ExitCodes :
        /\ tests_pass' = (rc = 0)
        /\ checks' = Append(checks, rc)
    /\ op_pc' = "lint"
    /\ trace' = Append(trace, "run_tests:pytest")
    /\ UNCHANGED <<op_goal, start, plan, results, lint_ok, type_ok, reward, ctx, action,
                   bandit>>
    /\ UNCHANGED <<rg_vars, disk_vars, op_calls, rg_rounds, fix_calls>>
    /\ UNCHANGED <<co_vars, rw_vars, ln_vars, gs_vars, plan_calls, co_obs>>

\* agent.py:52
OpRunLint ==
    /\ op_pc = "lint"
    /\ \E rc \in ExitCodes :
        /\ lint_ok' = (rc = 0)
        /\ checks' = Append(checks, rc)
    /\ op_pc' = "type"
    /\ trace' = Append(trace, "run_tests:ruff")
    /\ UNCHANGED <<op_goal, start, plan, results, tests_pass, type_ok, reward, ctx,
                   action, bandit>>
    /\ UNCHANGED <<rg_vars, disk_vars, op_calls, rg_rounds, fix_calls>>
    /\ UNCHANGED <<co_vars, rw_vars, ln_vars, gs_vars, plan_calls, co_obs>>

\* agent.py:53
OpRunType ==
    /\ op_pc = "type"
    /\ \E rc \in ExitCodes :
        /\ type_ok' = (rc = 0)
        /\ checks' = Append(checks, rc)
    /\ op_pc' = "score"
    /\ trace' = Append(trace, "run_tests:mypy")
    /\ UNCHANGED <<op_goal, start, plan, results, tests_pass, lint_ok, reward, ctx,
                   action, bandit>>
    /\ UNCHANGED <<rg_vars, disk_vars, op_calls, rg_rounds, fix_calls>>
    /\ UNCHANGED <<co_vars, rw_vars, ln_vars, gs_vars, plan_calls, co_obs>>

NeedsFixTestsOnly(tp, lo, ty) == ~tp

\* agent.py:71: if not (tests_pass and lint_ok and type_ok)
NeedsFix(tp, lo, ty) == ~(tp /\ lo /\ ty)

\* agent.py:61-68 and the test of line 71
OpScore ==
    /\ op_pc = "score"
    /\ reward' = Scoring(tests_pass, lint_ok, type_ok)
    /\ op_pc' = IF NeedsFix(tests_pass, lint_ok, type_ok) THEN "fix" ELSE "record"
    /\ trace' = Append(trace, "compute_reward")
    /\ UNCHANGED <<op_goal, start, plan, results, tests_pass, lint_ok, type_ok, ctx,
                   action, bandit>>
    /\ UNCHANGED <<rg_vars, disk_vars, op_calls, rg_rounds, checks, fix_calls>>
    /\ UNCHANGED <<co_vars, rw_vars, ln_vars, gs_vars, plan_calls, co_obs>>

\* agent.py:72
ErrType(tp, lo, ty) == IF ~tp THEN "tests" ELSE "lint"

FixContext(goal, tp, lo, ty) ==
    <<<<"goal", goal>>, <<"err_type", ErrType(tp, lo, ty)>>>>

\* agent.py:72-74; learner.py:12-13: the bandit samples, any strategy may come out
OpSelect ==
    /\ op_pc = "fix"
    /\ ctx' = FixContext(op_goal, tests_pass, lint_ok, type_ok)
    /\ \E a \in STRATEGIES :
        /\ action' = a
        /\ fix_calls' = Append(fix_calls, [fn |-> "select_action", context |-> ctx',
                                           returned |-> a])
    /\ op_pc' = "apply"
    /\ trace' = Append(trace, "select_action")
    /\ UNCHANGED <<op_goal, start, plan, results, tests_pass, lint_ok, type_ok, reward,
                   bandit>>
    /\ UNCHANGED <<rg_vars, disk_vars, op_calls, rg_rounds, checks>>
    /\ UNCHANGED <<co_vars, rw_vars, ln_vars, gs_vars, plan_calls, co_obs>>

\* fix_strategies.py:6-17: complete() is called at line 10, before the try of
\* line 12; what json.loads, ch["file"] or write_file raise is caught at line 16
apply_fix_strategy(out) == IF out = "error" THEN "raises" ELSE "returns"

AfterFixVerifiesAgain(how) == IF how = "raises" THEN "raised" ELSE "tests"

\* agent.py:75-78: where operate goes on when apply_fix_strategy is over
AfterFix(how) == IF how = "raises" THEN "raised" ELSE "record"

\* agent.py:75
OpApplyFix ==
    /\ op_pc = "apply"
    /\ \E out \in FixOutputs : op_pc' = AfterFix(apply_fix_strategy(out))
    /\ trace' = Append(trace, "apply_fix_strategy")
    /\ fix_calls' = Append(fix_calls, [fn |-> "apply_fix_strategy", action |-> action,
                                       context |-> ctx])
    /\ UNCHANGED <<op_goal, start, plan, results, tests_pass, lint_ok, type_ok, reward,
                   ctx, action, bandit>>
    /\ UNCHANGED <<rg_vars, disk_vars, op_calls, rg_rounds, checks>>
    /\ UNCHANGED <<co_vars, rw_vars, ln_vars, gs_vars, plan_calls, co_obs>>

\* agent.py:78: the context and the action operate hands to learner.record
RecordContext(goal, c) == <<<<"goal", goal>>>>
RecordAction(a) == "plan"

\* agent.py:78-79; learner.py:22-26: store.add raises when the write fails, and
\* nothing in record or operate catches it
OpRecord ==
    /\ op_pc = "record"
    /\ \E w \in StoreOutcomes :
        LET c == RecordContext(op_goal, ctx)
            a == RecordAction(action)
            ep == Episode("repo", c, a, [results |-> results], reward, now)
        IN  /\ store' = RecordStore(store, w, ep)
            /\ bandit' = RecordBandit(bandit, w, c, a, reward)
            /\ op_pc' = IF w = "written" THEN "history" ELSE "raised"
            /\ trace' = IF w = "written"
                        THEN trace \o <<"store.add", "bandit.update", "git_commit_all">>
                        ELSE Append(trace, "store.add")
    /\ UNCHANGED <<op_goal, start, plan, results, tests_pass, lint_ok, type_ok, reward,
                   ctx, action>>
    /\ UNCHANGED <<rg_vars, history, now, op_calls, rg_rounds, checks, fix_calls>>
    /\ UNCHANGED <<co_vars, rw_vars, ln_vars, gs_vars, plan_calls, co_obs>>

append_history_starts_over(hist, entry) == <<entry>>

\* state.py:11-18: the entries read from history.json, then the new one, are
\* written back
append_history(hist, entry) == Append(hist, entry)

\* agent.py:81-95 and state.py:11-18; the return into run_goal's line 108
OpFinish ==
    /\ op_pc = "history"
    /\ rg_pc = "operate"
    /\ LET rec == RoundRecord(op_goal, results, tests_pass, lint_ok, type_ok, reward,
                              now - start, now)
       IN  /\ history' = append_history(history, rec)
           /\ result' = rec
           /\ rg_rounds' = Append(rg_rounds, rec)
    /\ now' = now + 1
    /\ rg_pc' = "check"
    /\ trace' = Append(trace, "append_history")
    /\ fix_calls' = <<>>
    /\ OpReset
    /\ UNCHANGED <<rg_goal, max_retries, attempt, store, op_calls, checks>>
    /\ UNCHANGED <<co_vars, rw_vars, ln_vars, gs_vars, plan_calls, co_obs>>

\* an exception of operate leaves run_goal through line 108
OpRaise ==
    /\ op_pc = "raised"
    /\ rg_pc = "operate"
    /\ rg_pc' = "raised"
    /\ checks' = <<>>
    /\ fix_calls' = <<>>
    /\ OpReset
    /\ UNCHANGED <<rg_goal, max_retries, attempt, result, disk_vars, op_calls, rg_rounds,
                   trace>>
    /\ UNCHANGED <<co_vars, rw_vars, ln_vars, gs_vars, plan_calls, co_obs>>

\* agent.py:110-116
RunGoalCheck ==
    /\ rg_pc = "check"
    /\ rg_pc' = IF AllPass(result) THEN "returned" ELSE "loop"
    /\ UNCHANGED <<rg_goal, max_retries, attempt, result, op_vars, disk_vars, obs_vars>>
    /\ UNCHANGED <<co_vars, rw_vars, ln_vars, gs_vars, plan_calls, co_obs>>

\* ----------------------------------------------------------- run_multi_agent

\* planner_agent.py:19-27: an empty or malformed task list becomes the T0 plan
plan_for_goal(out, goal) ==
    IF out.kind = "tasks" /\ out.tasks # <<>> THEN out.tasks ELSE FallbackPlan(goal)

\* builder_agent.py:10-27: rc is the exit code a shell task's command gives
TaskResult(t, rc) ==
    IF t.tool \in {"code", "fs"} THEN [id |-> t.id, ok |-> TRUE]
    ELSE IF t.tool = "shell" THEN [id |-> t.id, ok |-> (rc = 0), rc |-> rc]
    ELSE [id |-> t.id, ok |-> FALSE, reason |-> <<"unknown tool ", t.tool>>]

execute_tasks(tasks, rc) ==
    [results |-> [i \in 1 .. Len(tasks) |-> TaskResult(tasks[i], rc)]]

run_quality_checks_stops_at_failure(tests, lint, typec) ==
    [tests_ok |-> (tests = 0), lint_ok |-> ((tests = 0) /\ (lint = 0)),
     type_ok |-> ((tests = 0) /\ (lint = 0) /\ (typec = 0)),
     all_ok |-> ((tests = 0) /\ (lint = 0) /\ (typec = 0))]

\* reviewer_agent.py:14-19
run_quality_checks(tests, lint, typec) ==
    [tests_ok |-> (tests = 0), lint_ok |-> (lint = 0), type_ok |-> (typec = 0),
     all_ok |-> ((tests = 0) /\ (lint = 0) /\ (typec = 0))]

\* reviewer_agent.py:31-37: the follow-ups kept from the model's text
ParsedFollow(out) == IF out.kind = "object" THEN out.follow ELSE [tasks |-> <<>>]

\* dict.get(key, default)
Get(d, key, default) == IF key \in DOMAIN d THEN d[key] ELSE default

\* coordinator.py:40
FollowTasks(review) == Get(Get(review, "followups", << >>), "tasks", <<>>)

\* coordinator.py:43: "; ".join(t.get("desc", "") for t in tasks)
RECURSIVE JoinDescs(_)
JoinDescs(tasks) ==
    IF tasks = <<>> THEN <<>>
    ELSE IF Len(tasks) = 1 THEN Get(tasks[1], "desc", <<>>)
    ELSE Get(tasks[1], "desc", <<>>) \o <<"; ">> \o JoinDescs(Tail(tasks))

ExtendGoalDropsGoal(goal, tasks) == <<"(follow-ups: ">> \o JoinDescs(tasks) \o <<")">>

\* coordinator.py:44: f"{goal} (follow-ups: {extra})"
ExtendGoal(goal, tasks) == goal \o <<" (follow-ups: ">> \o JoinDescs(tasks) \o <<")">>

RoundGuardShort(n, m) == n < m

\* coordinator.py:19: for r in range(1, max_rounds + 1)
RoundGuard(n, m) == n <= m

ReviewOkWrongKey(review) == Get(review, "all_ok", FALSE)

\* coordinator.py:35
ReviewOk(review) == review.quality.all_ok

\* coordinator.py:18
CallRunMultiAgent ==
    /\ co_pc = "idle"
    /\ rg_pc = "idle"
    /\ rw_pc = "idle"
    /\ ln_pc = "idle"
    /\ SessionsIdle
    /\ \E m \in RoundArgs : max_rounds' = m
    /\ co_goal' = TheGoal
    /\ summary' = [goal |-> TheGoal, rounds |-> <<>>]
    /\ r' = 0
    /\ round_rec' = << >>
    /\ co_pc' = "loop"
    /\ UNCHANGED <<rg_vars, op_vars, disk_vars, rw_vars, ln_vars, gs_vars, plan_calls, obs_vars, co_obs>>

\* coordinator.py:19 and 49
CoLoop ==
    /\ co_pc = "loop"
    /\ IF RoundGuard(r + 1, max_rounds)
       THEN /\ r' = r + 1
            /\ co_pc' = "plan"
       ELSE /\ co_pc' = "returned"
            /\ UNCHANGED r
    /\ UNCHANGED <<co_goal, max_rounds, round_rec, summary>>
    /\ UNCHANGED <<rg_vars, op_vars, disk_vars, rw_vars, ln_vars, gs_vars, plan_calls, obs_vars, co_obs>>

\* coordinator.py:23-24; planner_agent.py:15-27: complete() is called outside the try
CoPlan ==
    /\ co_pc = "plan"
    /\ planned' = Append(planned, co_goal)
    /\ \E out \in PlannerOutputs :
        IF out.kind = "error"
        THEN /\ co_pc' = "raised"
             /\ UNCHANGED round_rec
        ELSE /\ round_rec' = [round |-> r, plan |-> plan_for_goal(out, co_goal)]
             /\ co_pc' = "build"
    /\ UNCHANGED <<co_goal, max_rounds, r, summary>>
    /\ UNCHANGED <<co_log, built, reviewed, qc_runs>>
    /\ UNCHANGED <<rg_vars, op_vars, disk_vars, rw_vars, ln_vars, gs_vars, plan_calls, obs_vars>>

\* coordinator.py:27-28
CoBuild ==
    /\ co_pc = "build"
    /\ built' = built + 1
    /\ \E rc \in {0, 1} :
        round_rec' = [round |-> round_rec.round, plan |-> round_rec.plan,
                      build |-> execute_tasks(round_rec.plan, rc)]
    /\ co_pc' = "review"
    /\ UNCHANGED <<co_goal, max_rounds, r, summary>>
    /\ UNCHANGED <<co_log, planned, reviewed, qc_runs>>
    /\ UNCHANGED <<rg_vars, op_vars, disk_vars, rw_vars, ln_vars, gs_vars, plan_calls, obs_vars>>

SummaryKeepsLastRound(summ, rec) == [goal |-> summ.goal, rounds |-> <<rec>>]

\* coordinator.py:33: summary["rounds"].append(round_rec)
SummaryAppend(summ, rec) == [goal |-> summ.goal, rounds |-> Append(summ.rounds, rec)]

\* reviewer_agent.py:21-37 on the checks' exit codes and the model's text
review_and_suggest(qc, out) ==
    IF qc.all_ok THEN [quality |-> qc, followups |-> [tasks |-> <<>>]]
    ELSE [quality |-> qc, followups |-> ParsedFollow(out)]

\* coordinator.py:31-33; reviewer_agent.py:21-37: complete() is called outside the
\* try, and follow.get raises when the text parses to something that is no object
CoReview ==
    /\ co_pc = "review"
    /\ reviewed' = Append(reviewed, co_goal)
    /\ \E tests \in ExitCodes, lint \in ExitCodes, typec \in ExitCodes,
          out \in ReviewerOutputs :
        LET qc == run_quality_checks(tests, lint, typec)
            review == review_and_suggest(qc, out)
            rec == [round |-> round_rec.round, plan |-> round_rec.plan,
                    build |-> round_rec.build, review |-> review]
        IN  /\ qc_runs' = Append(qc_runs, <<tests, lint, typec>>)
            /\ IF ~qc.all_ok /\ out.kind \in {"error", "not_object"}
               THEN /\ co_pc' = "raised"
                    /\ UNCHANGED <<round_rec, summary>>
               ELSE /\ round_rec' = rec
                    /\ summary' = SummaryAppend(summary, rec)
                    /\ co_pc' = "decide"
    /\ UNCHANGED <<co_goal, max_rounds, r>>
    /\ UNCHANGED <<co_log, planned, built>>
    /\ UNCHANGED <<rg_vars, op_vars, disk_vars, rw_vars, ln_vars, gs_vars, plan_calls, obs_vars>>

\* coordinator.py:35-47
CoDecide ==
    /\ co_pc = "decide"
    /\ LET review == round_rec.review
           tasks == FollowTasks(review)
       IN  IF ReviewOk(review)
           THEN /\ co_log' = "success"
                /\ co_pc' = "returned"
                /\ UNCHANGED co_goal
           ELSE IF tasks # <<>>
           THEN /\ co_goal' = ExtendGoal(co_goal, tasks)
                /\ co_pc' = "loop"
                /\ UNCHANGED co_log
           ELSE /\ co_log' = "stuck"
                /\ co_pc' = "returned"
                /\ UNCHANGED co_goal
    /\ UNCHANGED <<max_rounds, r, round_rec, summary>>
    /\ UNCHANGED <<planned, built, reviewed, qc_runs>>
    /\ UNCHANGED <<rg_vars, op_vars, disk_vars, rw_vars, ln_vars, gs_vars, plan_calls, obs_vars>>

\* ------------------------------------------------- Learner.compute_reward

\* the domain of learner.py:15: three booleans, human_fb in [-1, 1],
\* diff_ratio >= 0, retries_ratio in [0, 1]; the floats in tenths
RewardArgs ==
    [tests_pass : BOOLEAN, lint_ok : BOOLEAN, type_ok : BOOLEAN,
     human_fb : -10 .. 10, diff_ratio : 0 .. MaxDiff, retries_ratio : 0 .. 10]

\* learner.py:15-20, called on its own
CallComputeReward ==
    /\ rw_pc = "idle"
    /\ rg_pc = "idle"
    /\ co_pc = "idle"
    /\ ln_pc = "idle"
    /\ SessionsIdle
    /\ \E a \in RewardArgs :
        /\ rw_args' = a
        /\ rw_value' = compute_reward(Float(a.tests_pass), a.lint_ok, a.type_ok,
                                      a.human_fb, a.diff_ratio, a.retries_ratio)
    /\ rw_pc' = "done"
    /\ UNCHANGED <<rg_vars, op_vars, disk_vars, co_vars, ln_vars, gs_vars, obs_vars, co_obs,
                   plan_calls>>

\* ----------------------------------------------------------- Learner.record

\* the contexts and rewards record is driven with: two insertion orders of one
\* mapping, and a mapping that differs from it in err_type
Contexts ==
    { <<<<"goal", TheGoal>>, <<"err_type", "tests">>>>,
      <<<<"err_type", "tests">>, <<"goal", TheGoal>>>>,
      <<<<"goal", TheGoal>>, <<"err_type", "lint">>>> }

Actions == {"retry_small_patch", "retry_rewrite_file"}

\* rewards in [0, 1], in thousandths
Rewards == {0, 245, 1000}

\* learner.py:22-26, called on one Learner that lives across the calls
CallRecord ==
    /\ rg_pc = "idle"
    /\ co_pc = "idle"
    /\ rw_pc = "idle"
    /\ SessionsIdle
    /\ now < MaxUpdates            \* at most MaxUpdates calls, failed ones included
    /\ \E c \in Contexts, a \in Actions, rw \in Rewards, w \in StoreOutcomes :
        LET ep == Episode("repo", c, a, << >>, rw, now)
        IN  /\ ln_store' = RecordStore(ln_store, w, ep)
            /\ ln_bandit' = RecordBandit(ln_bandit, w, c, a, rw)
            /\ ln_pc' = IF w = "written" THEN "returned" ELSE "raised"
    /\ now' = now + 1
    /\ UNCHANGED <<rg_vars, op_vars, history, store, co_vars, rw_vars, gs_vars, obs_vars,
                   co_obs, plan_calls>>

\* ------------------------------------------------- concurrent goal sessions

\* two sessions reach learner.record (agent.py:78) for the same context key, each
\* with its own action and reward
CallSessions ==
    /\ rg_pc = "idle"
    /\ co_pc = "idle"
    /\ rw_pc = "idle"
    /\ ln_pc = "idle"
    /\ SessionsIdle
    /\ now = 0
    /\ \E c1 \in Contexts, c2 \in Contexts, a1 \in Actions, a2 \in Actions,
          rw1 \in Rewards, rw2 \in Rewards :
        /\ ContextKey(c1) = ContextKey(c2)
        /\ gs_args' = [s \in Sessions |->
                          IF s = "repoA" THEN [context |-> c1, action |-> a1, reward |-> rw1]
                          ELSE [context |-> c2, action |-> a2, reward |-> rw2]]
    /\ gs_pc' = [s \in Sessions |-> "add"]
    /\ UNCHANGED <<rg_vars, op_vars, disk_vars, co_vars, rw_vars, ln_vars, gs_store,
                   gs_bandit, obs_vars, co_obs, plan_calls>>

\* learner.py:23-24 in one session: the episode goes to the store of this
\* session's repository
SessionAdd(s) ==
    /\ gs_pc[s] = "add"
    /\ \E w \in StoreOutcomes :
        LET a == gs_args[s]
            ep == Episode(s, a.context, a.action, << >>, a.reward, now)
        IN  /\ gs_store' = [gs_store EXCEPT ![s] = RecordStore(@, w, ep)]
            /\ gs_pc' = [gs_pc EXCEPT ![s] = IF w = "written" THEN "update" ELSE "raised"]
    /\ now' = now + 1
    /\ UNCHANGED <<rg_vars, op_vars, history, store, co_vars, rw_vars, ln_vars, gs_args,
                   gs_bandit, obs_vars, co_obs, plan_calls>>

\* learner.py:25-26 in one session: the update goes to the bandit of this
\* session's Learner
SessionUpdate(s) ==
    /\ gs_pc[s] = "update"
    /\ LET a == gs_args[s]
       IN  gs_bandit' = [gs_bandit EXCEPT
                            ![s] = RecordBandit(@, "written", a.context, a.action, a.reward)]
    /\ gs_pc' = [gs_pc EXCEPT ![s] = "returned"]
    /\ UNCHANGED <<rg_vars, op_vars, disk_vars, co_vars, rw_vars, ln_vars, gs_args,
                   gs_store, obs_vars, co_obs, plan_calls>>

Next ==
    \/ CallComputeReward
    \/ CallRecord
    \/ CallSessions
    \/ \E s \in Sessions : SessionAdd(s)
    \/ \E s \in Sessions : SessionUpdate(s)
    \/ CallRunMultiAgent
    \/ CoLoop
    \/ CoPlan
    \/ CoBuild
    \/ CoReview
    \/ CoDecide
    \/ CallRunGoal
    \/ RunGoalLoop
    \/ OpPlan
    \/ OpExecTask
    \/ OpRunTests
    \/ OpRunLint
    \/ OpRunType
    \/ OpScore
    \/ OpSelect
    \/ OpApplyFix
    \/ OpRecord
    \/ OpFinish
    \/ OpRaise
    \/ RunGoalCheck

Spec == Init /\ [][Next]_vars

\* =====================================================================
\* The properties
\* =====================================================================

ChecksAllTrue(rec) == rec.tests_pass = TRUE /\ rec.lint_ok = TRUE /\ rec.type_ok = TRUE

InRunGoal == rg_pc \in {"loop", "operate", "check", "returned", "raised"}

\* C1: for max_retries >= 1, run_goal invokes operate at most max_retries times,
\* invokes no round after a round whose three checks are all true, and returns
\* the record of the last round it invoked.
C1_StopsAtFirstPass ==
    (InRunGoal /\ max_retries >= 1) =>
        /\ op_calls <= max_retries
        /\ Len(rg_rounds) <= op_calls
        /\ \A i \in 1 .. Len(rg_rounds) :
              ChecksAllTrue(rg_rounds[i]) => (i = Len(rg_rounds) /\ op_calls = i)
        /\ rg_pc = "returned" =>
              /\ op_calls >= 1
              /\ Len(rg_rounds) = op_calls
              /\ result = rg_rounds[op_calls]

FailsOnTests(rec) == rec.tests_pass = FALSE /\ rec.lint_ok = TRUE /\ rec.type_ok = TRUE

C1_Witness ==
    /\ rg_pc = "returned" /\ max_retries = 3 /\ op_calls = 3 /\ Len(rg_rounds) = 3
    /\ FailsOnTests(rg_rounds[1]) /\ FailsOnTests(rg_rounds[2])
    /\ ChecksAllTrue(rg_rounds[3])
    /\ result = rg_rounds[3]

RunGoalEnded == rg_pc \in {"returned", "raised"}

\* C2: for max_retries = N >= 1, a run_goal all of whose rounds return a failing
\* record returns after exactly N invocations, with the N-th round's record and
\* its checks as that round reported them; and run_goal terminates: until it has
\* ended a step can always be taken, and the attempts, which only grow, are
\* bounded by N.
C2_ExhaustsAfterN ==
    /\ (rg_pc = "returned" /\ max_retries >= 1
            /\ \A i \in 1 .. Len(rg_rounds) : ~ChecksAllTrue(rg_rounds[i])) =>
            /\ op_calls = max_retries
            /\ Len(rg_rounds) = max_retries
            /\ result = rg_rounds[max_retries]
            /\ ~ChecksAllTrue(result)
    /\ (InRunGoal /\ ~RunGoalEnded) => ENABLED Next
    /\ (InRunGoal /\ max_retries >= 1) => (attempt = op_calls /\ attempt <= max_retries)

AllFalse(rec) == rec.tests_pass = FALSE /\ rec.lint_ok = FALSE /\ rec.type_ok = FALSE

C2_Witness ==
    /\ rg_pc = "returned" /\ max_retries = 3 /\ op_calls = 3 /\ Len(rg_rounds) = 3
    /\ \A i \in 1 .. 3 : AllFalse(rg_rounds[i])
    /\ AllFalse(result)


\* ---------------------------------------------------------------- C3, C4

\* the fields under which a result could carry a terminal status
StatusFields == {"status", "terminal_state"}
HasStatus(rec, st) == \E f \in StatusFields \cap DOMAIN rec : rec[f] = st

InCo == co_pc \in {"loop", "plan", "build", "review", "decide", "returned", "raised"}
CoEnded == co_pc \in {"returned", "raised"}

Rounds == IF InCo THEN summary.rounds ELSE <<>>
RoundOk(rec) == rec.review.quality.all_ok = TRUE
RoundFollowUps(rec) ==
    IF "tasks" \in DOMAIN rec.review.followups THEN rec.review.followups.tasks ELSE <<>>
RoundStuck(rec) == ~RoundOk(rec) /\ RoundFollowUps(rec) = <<>>
RoundGoesOn(rec) == ~RoundOk(rec) /\ RoundFollowUps(rec) # <<>>

RunGoalExhausted ==
    /\ rg_pc = "returned" /\ max_retries >= 1 /\ op_calls = max_retries
    /\ ~ChecksAllTrue(result)

CoExhausted ==
    /\ co_pc = "returned" /\ max_rounds >= 1 /\ Len(Rounds) = max_rounds
    /\ RoundGoesOn(Rounds[max_rounds])

\* C3: when run_goal reaches max_retries, or run_multi_agent reaches max_rounds,
\* without an all-pass round, the value returned carries an explicit "exhausted"
\* status.
C3_ExhaustedStatus ==
    /\ RunGoalExhausted => HasStatus(result, "exhausted")
    /\ CoExhausted => HasStatus(summary, "exhausted")

\* C4: a round whose review is not all_ok and proposes no follow-ups is the last
\* round (no further round is started: one round in all when it is round 1), and
\* the result then has terminal_state = "stuck".
C4_StuckStatus ==
    \A i \in 1 .. Len(Rounds) :
        RoundStuck(Rounds[i]) =>
            /\ i = Len(Rounds) /\ Len(planned) = i
            /\ co_pc \in {"decide", "returned"}
            /\ co_pc = "returned" => HasStatus(summary, "stuck")

\* what holds of such a round: it is the last one, and the closing log line is
\* the only place where "stuck" appears
C4_StuckStopsOnly ==
    \A i \in 1 .. Len(Rounds) :
        RoundStuck(Rounds[i]) =>
            /\ i = Len(Rounds) /\ Len(planned) = i
            /\ co_pc \in {"decide", "returned"}
            /\ co_pc = "returned" => co_log = "stuck"

\* -------------------------------------------------------------------- C5

\* C5: every Coordinator round calls plan, then build, then review, once each
\* and in that order; after a round whose review is all_ok no further plan,
\* build or review call is made and the session ends as succeeded.
C5_PlanBuildReview ==
    InCo =>
        /\ co_pc = "plan" =>
              Len(planned) = r - 1 /\ built = r - 1 /\ Len(reviewed) = r - 1
        /\ co_pc = "build" =>
              Len(planned) = r /\ built = r - 1 /\ Len(reviewed) = r - 1
        /\ co_pc = "review" =>
              Len(planned) = r /\ built = r /\ Len(reviewed) = r - 1
        /\ co_pc \in {"decide", "loop", "returned"} =>
              Len(planned) = r /\ built = r /\ Len(reviewed) = r /\ Len(Rounds) = r
        /\ co_pc = "raised" =>
              Len(planned) = r /\ Len(reviewed) <= built /\ built <= r
        /\ \A i \in 1 .. Len(Rounds) :
              /\ Rounds[i].round = i
              /\ RoundOk(Rounds[i]) =>
                    /\ i = Len(Rounds)
                    /\ Len(planned) = i /\ built = i /\ Len(reviewed) = i
                    /\ co_pc \in {"decide", "returned"}
                    /\ co_pc = "returned" => co_log = "success"

C5_Witness ==
    /\ co_pc = "returned" /\ max_rounds = 2 /\ co_log = "success"
    /\ Len(Rounds) = 1 /\ RoundOk(Rounds[1])
    /\ Len(planned) = 1 /\ built = 1 /\ Len(reviewed) = 1

\* -------------------------------------------------------------------- C6

\* C6: for max_rounds >= 0 run_multi_agent terminates (until it has ended a step
\* can always be taken, and the round counter, which only grows, is bounded by
\* max_rounds), starts at most max_rounds rounds, and has executed exactly
\* max_rounds rounds when it returns after rounds that were all not all-ok with
\* follow-ups.
C6_AtMostMaxRounds ==
    (InCo /\ max_rounds >= 0) =>
        /\ r <= max_rounds
        /\ Len(planned) <= max_rounds /\ built <= max_rounds
        /\ Len(reviewed) <= max_rounds /\ Len(Rounds) <= max_rounds
        /\ (co_pc = "returned" /\ \A i \in 1 .. Len(Rounds) : RoundGoesOn(Rounds[i])) =>
              (Len(Rounds) = max_rounds /\ Len(planned) = max_rounds)
        /\ ~CoEnded => ENABLED Next

C6_Witness ==
    /\ co_pc = "returned" /\ max_rounds = 2 /\ Len(Rounds) = 2
    /\ RoundGoesOn(Rounds[1]) /\ RoundGoesOn(Rounds[2])
    /\ Len(planned) = 2

\* -------------------------------------------------------------------- C7

DescOf(t) == IF "desc" \in DOMAIN t THEN t.desc ELSE <<>>

\* d1; ...; dk, built from the left
RECURSIVE Joined(_, _)
Joined(tasks, k) ==
    IF k = 0 THEN <<>>
    ELSE IF k = 1 THEN DescOf(tasks[1])
    ELSE Joined(tasks, k - 1) \o <<"; ">> \o DescOf(tasks[k])

Extended(goal, tasks) ==
    goal \o <<" (follow-ups: ">> \o Joined(tasks, Len(tasks)) \o <<")">>

IsPrefix(s, t) == Len(s) <= Len(t) /\ SubSeq(t, 1, Len(s)) = s

\* the goal the working variable holds once round n has been decided
GoalAfter(n) ==
    IF n = 0 THEN summary.goal
    ELSE IF RoundGoesOn(Rounds[n]) THEN Extended(planned[n], RoundFollowUps(Rounds[n]))
    ELSE planned[n]

\* C7: the Planner and the Reviewer of a round get the same goal; round 1 gets
\* the caller's goal; after a round r that is not all-ok and proposes follow-ups
\* d1..dk the goal of round r+1 is the goal of round r followed by
\* " (follow-ups: d1; ...; dk)", so the goal of round r is a prefix of it; and
\* the working goal changes in no other way.
C7_GoalExtension ==
    InCo =>
        /\ \A i \in 1 .. Len(reviewed) : reviewed[i] = planned[i]
        /\ \A i \in 1 .. Len(planned) :
              /\ planned[i] = GoalAfter(i - 1)
              /\ i > 1 => /\ RoundGoesOn(Rounds[i - 1])
                          /\ IsPrefix(planned[i - 1], planned[i])
                          /\ planned[i] # planned[i - 1]
        /\ co_pc \in {"plan", "build", "review"} => co_goal = GoalAfter(r - 1)
        /\ co_pc = "decide" => co_goal = planned[r]
        /\ co_pc \in {"loop", "returned"} => co_goal = GoalAfter(r)

C7_Witness ==
    /\ co_pc = "review" /\ r = 2 /\ Len(planned) = 2
    /\ planned[1] = <<"g">>
    /\ planned[2] = <<"g", " (follow-ups: ", "b", "; ", "; ", "a", ")">>
    /\ co_goal = planned[2]

\* ---------------------------------------------------------------- C8, C9

Scored == op_pc \in {"fix", "apply", "record", "history"}

\* C8: compute_reward returns a value in [0, 1] (0 .. 1000 thousandths) for every
\* input of its domain; so does the reward of every round in progress, of every
\* round record and of every recorded episode.
C8_RewardInRange ==
    /\ rw_pc = "done" => (0 <= rw_value /\ rw_value <= 1000)
    /\ Scored => (0 <= reward /\ reward <= 1000)
    /\ \A i \in 1 .. Len(history) : 0 <= history[i].reward /\ history[i].reward <= 1000
    /\ \A i \in 1 .. Len(rg_rounds) : 0 <= rg_rounds[i].reward /\ rg_rounds[i].reward <= 1000
    /\ \A i \in 1 .. Len(store) : 0 <= store[i].reward /\ store[i].reward <= 1000

C8_Witness ==
    /\ rw_pc = "done"
    /\ rw_args = [tests_pass |-> FALSE, lint_ok |-> FALSE, type_ok |-> FALSE,
                  human_fb |-> -10, diff_ratio |-> MaxDiff, retries_ratio |-> 10]
    /\ rw_value = 0

Bit(b) == IF b THEN 1 ELSE 0

\* 0.6 tests + 0.2 lint + 0.1 type + 0.1 (human_fb + 1)/2 - 0.05 diff_ratio
\* - 0.05 retries_ratio, in units of 1/20000
Weighted(a) ==
    12000 * Bit(a.tests_pass) + 4000 * Bit(a.lint_ok) + 2000 * Bit(a.type_ok)
        + 100 * (a.human_fb + 10) - 100 * a.diff_ratio - 100 * a.retries_ratio

Clamped(x, lo, hi) == IF x < lo THEN lo ELSE IF x > hi THEN hi ELSE x

BestCase == [tests_pass |-> TRUE, lint_ok |-> TRUE, type_ok |-> TRUE,
             human_fb |-> 10, diff_ratio |-> 0, retries_ratio |-> 0]
WorstCase == [tests_pass |-> FALSE, lint_ok |-> FALSE, type_ok |-> FALSE,
              human_fb |-> -10, diff_ratio |-> 10, retries_ratio |-> 10]

\* C9: compute_reward is the weighted sum clamped to [0, 1] on every input of the
\* domain; reward(True, True, True, 1.0, 0, 0) = 1.0 and
\* reward(False, False, False, -1.0, 1, 1) = 0.0.
C9_RewardFormula ==
    rw_pc = "done" =>
        /\ 20 * rw_value = Clamped(Weighted(rw_args), 0, 20000)
        /\ rw_args = BestCase => rw_value = 1000
        /\ rw_args = WorstCase => rw_value = 0

C9_Witness == rw_pc = "done" /\ rw_args = BestCase /\ rw_value = 1000

\* -------------------------------------------------------------------- C10

\* the score of a round with human_fb 0.0, diff_ratio 0.1 and retries_ratio 0.0
RoundScore(tp, lo, ty) == 600 * Bit(tp) + 200 * Bit(lo) + 100 * Bit(ty) + 50 - 5

ScoredAs(rec) == rec.reward = RoundScore(rec.tests_pass, rec.lint_ok, rec.type_ok)

SameChecks(a, b) ==
    a.tests_pass = b.tests_pass /\ a.lint_ok = b.lint_ok /\ a.type_ok = b.type_ok

\* C10: the reward of a round is one fixed function of its three outcomes, after
\* any earlier rounds, episodes and weights (so two rounds with the same outcomes
\* have the same reward), and the step that computes it changes nothing but the
\* round's reward.
C10_ScoringStateless ==
    /\ [](/\ \A i \in 1 .. Len(history) : ScoredAs(history[i])
          /\ \A i, j \in 1 .. Len(history) :
                SameChecks(history[i], history[j]) => history[i].reward = history[j].reward
          /\ Scored => reward = RoundScore(tests_pass, lint_ok, type_ok))
    /\ [][(op_pc = "score" /\ op_pc' # "score") =>
            /\ reward' = RoundScore(tests_pass, lint_ok, type_ok)
            /\ UNCHANGED <<history, store, bandit, now, tests_pass, lint_ok, type_ok,
                           plan, results, op_goal, ctx, action, rg_vars, co_vars,
                           rw_vars>>]_vars
    /\ [][(rw_pc = "idle" /\ rw_pc' = "done") =>
            UNCHANGED <<history, store, bandit, now, op_vars, rg_vars, co_vars>>]_vars

C10_Witness ==
    /\ Len(history) = 3 /\ Len(store) = 3
    /\ SameChecks(history[1], history[3]) /\ ~SameChecks(history[1], history[2])
    /\ history[1].reward = history[3].reward
    /\ history[1].tasks # history[3].tasks
    /\ history[1].reward = 245

\* ---------------------------------------------------------------- C11

\* operate is past Planning
Planned == op_pc \in {"exec", "tests", "lint", "type", "score", "fix", "apply",
                      "record", "history"}

\* the round stopped in a call of the planner
PlanningAborted ==
    \/ op_pc = "raised" /\ trace = <<"make_plan">>
    \/ co_pc = "raised" /\ Len(planned) = r /\ built < r

\* C11: whatever the planner hands back, the plan a round goes on to execute has
\* at least one task (in operate and in the coordinator alike), and planning never
\* aborts the round.
C11_PlanNeverEmpty ==
    /\ Planned => Len(plan) >= 1
    /\ co_pc \in {"build", "review", "decide"} => Len(round_rec.plan) >= 1
    /\ ~PlanningAborted

\* what does hold: the coordinator's planner never yields an empty plan, and a
\* plan of operate is the planner's own task list or the T0 fallback
C11_FallbackShape ==
    /\ co_pc \in {"build", "review", "decide"} => Len(round_rec.plan) >= 1
    /\ Planned => plan \in {<<>>, GoodPlan, FallbackPlan(op_goal)}

\* ---------------------------------------------------------------- C12

RECURSIVE Absorbed(_, _)
\* the observations a set of arms has absorbed beyond the (1, 1) they start at
Absorbed(b, arms) ==
    IF arms = {} THEN 0
    ELSE LET k == CHOOSE x \in arms : TRUE
         IN  (b[k][1] + b[k][2] - 2000) + Absorbed(b, arms \ {k})

\* the number of updates a bandit has had
Observations(b) == Absorbed(b, DOMAIN b) \div 1000

BeforeCommit == op_pc \in {"plan", "exec", "tests", "lint", "type", "score", "fix",
                           "apply", "record"}

\* C12: a round whose Committing step has run has added exactly one episode (its
\* own: this round's result and reward) to the store and applied exactly one bandit
\* update, whatever the checks gave and whether or not a fix was applied; so the
\* store holds one episode per committed round, and n when run_goal returns
\* after n rounds.  (The store write is taken to succeed; its failure is C15.)
C12_OneEpisodePerRound ==
    InRunGoal =>
        /\ BeforeCommit => (Len(store) = Len(rg_rounds) /\ Observations(bandit) = 0)
        /\ op_pc = "history" =>
              /\ Len(store) = Len(rg_rounds) + 1
              /\ Observations(bandit) = 1
              /\ store[Len(store)].reward = reward
              /\ store[Len(store)].result = [results |-> results]
        /\ op_pc = "idle" => Len(store) = Len(rg_rounds)
        /\ rg_pc = "returned" =>
              /\ Len(store) = op_calls
              /\ \A i \in 1 .. op_calls :
                    /\ store[i].reward = rg_rounds[i].reward
                    /\ store[i].result.results = rg_rounds[i].tasks

C12_Witness ==
    /\ rg_pc = "returned" /\ op_calls = 3 /\ Len(store) = 3
    /\ AllFalse(rg_rounds[1]) /\ FailsOnTests(rg_rounds[2]) /\ ChecksAllTrue(rg_rounds[3])
    /\ store[1].reward = 45 /\ store[3].reward = 945

\* ---------------------------------------------------------------- C13

\* the round selected a fix strategy and its Committing step has run
RemediatedAndCommitted == op_pc = "history" /\ action # None

LastEpisode == store[Len(store)]

\* C13: in a round where remediation occurred, the episode recorded and the bandit
\* update applied carry the context handed to select and the action select
\* returned, with the reward of the unfixed check outcomes: the weights that
\* change are those of the chosen strategy's arm for that context.
C13_EpisodeCarriesSelection ==
    RemediatedAndCommitted =>
        /\ Items(LastEpisode.context) = Items(ctx)
        /\ LastEpisode.action = action
        /\ LastEpisode.reward = Scoring(tests_pass, lint_ok, type_ok)
        /\ Arm(bandit, ContextKey(ctx), action) # <<1000, 1000>>

\* what the code records instead: the context {"goal": goal} and the action
\* "plan", and no arm of the selection context ever changes
C13_RecordedAsPlan ==
    RemediatedAndCommitted =>
        /\ LastEpisode.context = <<<<"goal", op_goal>>>>
        /\ LastEpisode.action = "plan"
        /\ LastEpisode.reward = Scoring(tests_pass, lint_ok, type_ok)
        /\ \A a \in STRATEGIES : Arm(bandit, ContextKey(ctx), a) = <<1000, 1000>>
        /\ Arm(bandit, ContextKey(LastEpisode.context), "plan")
              = <<1000 + reward, 2000 - reward>>

\* ---------------------------------------------------------------- C14

LastCall == IF trace = <<>> THEN None ELSE trace[Len(trace)]

\* the round was left by an exception of the fix applier
FixApplierRaised == op_pc = "raised" /\ LastCall = "apply_fix_strategy"

\* C14: however the fix applier fails, apply_fix_strategy returns to operate
\* without raising (and the round goes on to Committing).
C14_FixApplierNeverRaises == ~FixApplierRaised

\* what does hold: every failure but that of the completion call is caught
C14_CaughtFailures ==
    /\ \A out \in FixOutputs \ {"error"} : apply_fix_strategy(out) = "returns"
    /\ op_pc = "record" /\ action # None => LastCall = "apply_fix_strategy"

\* ---------------------------------------------------------------- C15

\* the round was left by the exception of a failed store write
StoreWriteRaised == op_pc = "raised" /\ LastCall = "store.add"

\* C15: when the store write of Learner.record fails, the bandit update of the same
\* call is still applied in memory (a Learner's bandit has absorbed one observation
\* per record call, failed writes included), and the round is not failed by it.
C15_UpdateSurvivesWriteFailure ==
    /\ ln_pc # "idle" => Observations(ln_bandit) = now
    /\ ~StoreWriteRaised

\* what the code does: the update is skipped together with the episode
C15_WriteFailureSkipsUpdate ==
    /\ ln_pc # "idle" => Observations(ln_bandit) = Len(ln_store)
    /\ StoreWriteRaised => Observations(bandit) = 0

\* ---------------------------------------------------------------- C16

\* a round of operate stopped part-way: an exception left it before Done
RoundStoppedPartWay == op_pc = "raised" \/ rg_pc = "raised"

\* C16: a round of operate, once started, is never left part-way, whatever the
\* collaborator calls give: it goes on to Committing and Done and returns a record.
C16_RoundRunsToCompletion == ~RoundStoppedPartWay

\* what does hold: a round stops part-way only in the planner's or the fix
\* applier's completion call or in the store write, and it then leaves the store
\* and the history as the committed rounds made them
C16_StopsOnlyInCalls ==
    op_pc = "raised" =>
        /\ LastCall \in {"make_plan", "apply_fix_strategy", "store.add"}
        /\ Len(store) = Len(rg_rounds) /\ Len(history) = Len(rg_rounds)
        /\ Observations(bandit) = 0

\* ---------------------------------------------------------------- C17

RECURSIVE ToolCalls(_)
\* the tool calls the task loop makes for a task list
ToolCalls(tasks) ==
    IF tasks = <<>> THEN <<>> ELSE ToolCall(tasks[1]) \o ToolCalls(Tail(tasks))

\* the calls of a whole round that ended with the record rec
FullCycle(rec) ==
    <<"make_plan">> \o ToolCalls(rec.tasks)
        \o <<"run_tests:pytest", "run_tests:ruff", "run_tests:mypy", "compute_reward">>
        \o (IF ChecksAllTrue(rec) THEN <<>> ELSE <<"select_action", "apply_fix_strategy">>)
        \o <<"store.add", "bandit.update", "git_commit_all", "append_history">>

\* C17: in a run_goal the planner is called once per round, at the round's start
\* and with run_goal's own goal text every time; every round that completes has
\* run the whole plan, execute, verify cycle on the plan made in that round,
\* whatever the round before reported; n rounds make n planner calls.
C17_ReplansEveryRound ==
    InRunGoal =>
        /\ Len(plan_calls) = IF op_pc = "plan" THEN op_calls - 1 ELSE op_calls
        /\ \A i \in 1 .. Len(plan_calls) : plan_calls[i] = rg_goal
        /\ \A i \in 1 .. Len(rg_rounds) : rg_rounds[i].goal = rg_goal
        /\ op_pc = "plan" => (trace = <<>> /\ plan = <<>> /\ results = <<>>)
        /\ Planned => (trace[1] = "make_plan" /\ results = SubSeq(plan, 1, Len(results)))
        /\ rg_pc = "check" => trace = FullCycle(result)
        /\ rg_pc = "returned" =>
              (Len(plan_calls) = op_calls /\ Len(rg_rounds) = op_calls)

FailsOnLint(rec) == rec.tests_pass = TRUE /\ rec.lint_ok = FALSE /\ rec.type_ok = TRUE

C17_Witness ==
    /\ rg_pc = "returned" /\ op_calls = 3
    /\ plan_calls = <<TheGoal, TheGoal, TheGoal>>
    /\ FailsOnTests(rg_rounds[1]) /\ FailsOnLint(rg_rounds[2])
    /\ ChecksAllTrue(rg_rounds[3])
    /\ rg_rounds[1].tasks = GoodPlan /\ rg_rounds[2].tasks = FallbackPlan(TheGoal)
    /\ rg_rounds[3].tasks = GoodPlan

\* ---------------------------------------------------------------- C18

\* select is about to read the weights, and earlier rounds have committed
SelectsAfterCommits == op_pc = "fix" /\ Len(store) >= 1

\* C18: the weights select reads in a round include every update committed by
\* the earlier rounds on the repository: the arm of each committed episode
\* reflects its reward and is not at the initial (1, 1).
C18_BeliefSurvivesRounds ==
    SelectsAfterCommits =>
        /\ Observations(bandit) >= Len(store)
        /\ \A i \in 1 .. Len(store) :
              Arm(bandit, ContextKey(store[i].context), store[i].action)
                  # <<1000, 1000>>

\* what the code does: each round builds its own Learner and bandit, so select
\* always reads weights without a single observation
C18_SelectsOverFreshWeights ==
    op_pc \in {"fix", "apply"} =>
        /\ bandit = FreshBandit
        /\ \A a \in STRATEGIES :
              Arm(bandit, ContextKey(FixContext(op_goal, tests_pass, lint_ok, type_ok)), a)
                  = <<1000, 1000>>

\* ---------------------------------------------------------------- C19

RECURSIVE RewardSum(_, _, _)
\* the rewards of the episodes of a log that went to the arm (key, a), added up
RewardSum(log, key, a) ==
    IF log = <<>> THEN 0
    ELSE (IF ContextKey(log[1].context) = key /\ log[1].action = a
          THEN log[1].reward ELSE 0) + RewardSum(Tail(log), key, a)

RECURSIVE UpdateCount(_, _, _)
\* the number of episodes of a log that went to the arm (key, a)
UpdateCount(log, key, a) ==
    IF log = <<>> THEN 0
    ELSE (IF ContextKey(log[1].context) = key /\ log[1].action = a THEN 1 ELSE 0)
             + UpdateCount(Tail(log), key, a)

\* C19: after any sequence of updates with rewards in [0, 1], an arm nothing was
\* applied to is at (1, 1); an arm's success weight is 1 plus the rewards applied
\* to it and its failure weight 1 plus their complements (each update adds r and
\* 1 - r to exactly its own arm); so no weight is below 1, none ever decreases,
\* and the two add up to 2 + the number of updates applied to the arm.
C19_WeightsAccumulate ==
    ln_pc # "idle" =>
        \A c \in Contexts, a \in Actions :
            LET key == ContextKey(c)
                w == Arm(ln_bandit, key, a)
                n == UpdateCount(ln_store, key, a)
                s == RewardSum(ln_store, key, a)
            IN  /\ w[1] = 1000 + s
                /\ w[2] = 1000 + (1000 * n - s)
                /\ w[1] >= 1000 /\ w[2] >= 1000
                /\ w[1] + w[2] = 2000 + 1000 * n
                /\ n = 0 => w = <<1000, 1000>>

C19_Witness ==
    /\ Len(ln_store) = 3
    /\ \E c \in Contexts :
          /\ Arm(ln_bandit, ContextKey(c), "retry_small_patch") = <<2245, 1755>>
          /\ Arm(ln_bandit, ContextKey(c), "retry_rewrite_file") = <<1000, 2000>>

\* ---------------------------------------------------------------- C20

\* the belief state of a context: the weights of its arms
BeliefOf(b, c) == [a \in Actions |-> Arm(b, ContextKey(c), a)]

RECURSIVE ReplayFor(_, _)
\* the bandit that results from applying, in order, only those updates of a log
\* whose context is the same mapping as c
ReplayFor(log, c) ==
    IF log = <<>> THEN FreshBandit
    ELSE LET e == log[Len(log)]
             before == ReplayFor(SubSeq(log, 1, Len(log) - 1), c)
         IN  IF Items(e.context) = Items(c)
             THEN BanditUpdate(before, e.context, e.action, e.reward)
             ELSE before

SameMapping(c1, c2) == Items(c1) = Items(c2)

\* C20: the belief state of a context is what the updates made under that very
\* mapping give, as if the updates under every other context had not been made
\* (an update under ctx1 leaves ctx2 untouched), and two insertion orders of one
\* mapping address one belief state while different mappings have different keys.
C20_ContextIsolation ==
    ln_pc # "idle" =>
        /\ \A c \in Contexts : BeliefOf(ln_bandit, c) = BeliefOf(ReplayFor(ln_store, c), c)
        /\ \A c1, c2 \in Contexts :
              /\ SameMapping(c1, c2) <=> ContextKey(c1) = ContextKey(c2)
              /\ SameMapping(c1, c2) => BeliefOf(ln_bandit, c1) = BeliefOf(ln_bandit, c2)

TestsFirstGoal == <<<<"err_type", "tests">>, <<"goal", TheGoal>>>>
GoalFirstTests == <<<<"goal", TheGoal>>, <<"err_type", "tests">>>>
GoalFirstLint == <<<<"goal", TheGoal>>, <<"err_type", "lint">>>>

C20_Witness ==
    /\ Len(ln_store) = 3
    /\ ln_store[1].context = GoalFirstTests /\ ln_store[2].context = GoalFirstLint
    /\ ln_store[3].context = TestsFirstGoal
    /\ \A i \in 1 .. 3 : ln_store[i].action = "retry_small_patch"
    /\ BeliefOf(ln_bandit, TestsFirstGoal)["retry_small_patch"] = <<3000, 1000>>
    /\ BeliefOf(ln_bandit, GoalFirstLint)["retry_small_patch"] = <<1000, 2000>>

\* ---------------------------------------------------------------- C21

\* a step that adds to a store appends one episode and keeps what was stored
Appends(old, new) ==
    /\ Len(new) = Len(old) + 1
    /\ SubSeq(new, 1, Len(old)) = old
    /\ LearnerRecent(new, 1) = <<new[Len(new)]>>

\* the episodes of a store, read back with every limit up to one past its size
ReadsBack(st) ==
    \A limit \in 1 .. Len(st) + 1 :
        LET out == LearnerRecent(st, limit)
            k == Min(limit, Len(st))
        IN  /\ Len(out) = k
            /\ \A i \in 1 .. k : out[i] = st[Len(st) - k + i]
            /\ \A i \in 1 .. k - 1 : out[i].ts < out[i + 1].ts

\* C21: an add appends one episode, which recent(1) then returns alone, and
\* leaves every earlier episode as it was; recent(limit) returns the last
\* `limit` episodes stored (all of them when fewer are stored) in insertion
\* order, newest last.
C21_StoreRoundTrip ==
    /\ [](ReadsBack(ln_store) /\ ReadsBack(store))
    /\ [][/\ ln_store' # ln_store => Appends(ln_store, ln_store')
          /\ store' # store => Appends(store, store')]_vars

C21_Witness ==
    /\ ln_pc = "returned"
    /\ Len(ln_store) = 3
    /\ LearnerRecent(ln_store, 2) = <<ln_store[2], ln_store[3]>>
    /\ ln_store[2] # ln_store[3]

\* ---------------------------------------------------------------- C22

SessionsDone == \A s \in Sessions : gs_pc[s] = "returned"

\* the bandit that the update of session s1 followed by that of s2 gives
InOrder(s1, s2) ==
    LET u1 == gs_args[s1]
        u2 == gs_args[s2]
    IN  BanditUpdate(BanditUpdate(FreshBandit, u1.context, u1.action, u1.reward),
                     u2.context, u2.action, u2.reward)

\* C22: when two goal sessions on different repositories have both gone through
\* Learner.record for the same context key, no bandit update is lost: the
\* weights of that key are those of the two updates applied in one order or the
\* other; and each session's episode is in the store as one whole episode.
C22_NoUpdateLost ==
    SessionsDone =>
        /\ \E s \in Sessions, s1 \in Sessions, s2 \in Sessions :
              /\ s1 # s2
              /\ BeliefOf(gs_bandit[s], gs_args[s].context)
                   = BeliefOf(InOrder(s1, s2), gs_args[s].context)
        /\ \A s \in Sessions :
              \E i \in 1 .. Len(gs_store[s]) :
                  /\ gs_store[s][i].context = gs_args[s].context
                  /\ gs_store[s][i].action = gs_args[s].action
                  /\ gs_store[s][i].reward = gs_args[s].reward

\* what the sessions do: each writes its episode to the store of its own
\* repository, whole, and updates the bandit of its own Learner, which holds
\* that one update and nothing of the other session
C22_SessionsShareNothing ==
    SessionsDone =>
        \A s \in Sessions :
            LET a == gs_args[s]
            IN  /\ Len(gs_store[s]) = 1
                /\ gs_store[s][1].repo = s
                /\ gs_store[s][1].context = a.context
                /\ gs_store[s][1].action = a.action
                /\ gs_store[s][1].reward = a.reward
                /\ gs_bandit[s] = BanditUpdate(FreshBandit, a.context, a.action, a.reward)

\* ---------------------------------------------------------------- C23

\* the step of the round a collaborator call belongs to: 1 Planning,
\* 2 Executing, 3 Verifying, 4 Scoring, 5 Remediating, 6 Committing, 7 Done
Step(call) ==
    CASE call = "make_plan" -> 1
      [] call \in {"apply_code_task", "run_tests:task"} -> 2
      [] call \in {"run_tests:pytest", "run_tests:ruff", "run_tests:mypy"} -> 3
      [] call = "compute_reward" -> 4
      [] call \in {"select_action", "apply_fix_strategy"} -> 5
      [] call \in {"store.add", "bandit.update", "git_commit_all"} -> 6
      [] call = "append_history" -> 7

\* the place of a call among the calls a round makes outside its task loop
Rank(call) ==
    CASE call = "make_plan" -> 1
      [] call \in {"apply_code_task", "run_tests:task"} -> 2
      [] call = "run_tests:pytest" -> 3
      [] call = "run_tests:ruff" -> 4
      [] call = "run_tests:mypy" -> 5
      [] call = "compute_reward" -> 6
      [] call = "select_action" -> 7
      [] call = "apply_fix_strategy" -> 8
      [] call = "store.add" -> 9
      [] call = "bandit.update" -> 10
      [] call = "git_commit_all" -> 11
      [] call = "append_history" -> 12

Times(call) == Cardinality({i \in 1 .. Len(trace) : trace[i] = call})

Remediated == Times("apply_fix_strategy") > 0

\* the round has returned its record or has been left by an exception: trace
\* lists all the calls it made
RoundOver == rg_pc = "check" \/ op_pc = "raised"

\* C23: within a round the calls are made step by step in the order Planning,
\* Executing, Verifying, Scoring, Remediating, Committing, Done; no step is
\* entered twice (the calls outside the task loop follow one another in one
\* fixed order, each made at most once), in rounds that return as in rounds
\* an exception leaves; no check is run after the fix applier; and the record the round returns carries
\* the outcomes of the checks as they ran before remediation and the reward
\* computed from them.
C23_StepsInOrder ==
    [](/\ RoundOver =>
             \A i \in 1 .. Len(trace) - 1 :
                 /\ Step(trace[i]) <= Step(trace[i + 1])
                 /\ Step(trace[i]) # 2 => Rank(trace[i]) < Rank(trace[i + 1])
                 /\ trace[i] = "apply_fix_strategy" => Step(trace[i + 1]) > 5
       /\ rg_pc = "check" =>
             /\ Len(checks) = 3
             /\ result.tests_pass = (checks[1] = 0)
             /\ result.lint_ok = (checks[2] = 0)
             /\ result.type_ok = (checks[3] = 0)
             /\ result.reward = Scoring(checks[1] = 0, checks[2] = 0, checks[3] = 0)
             /\ Remediated <=> ~ChecksAllTrue(result))

C23_Witness ==
    /\ rg_pc = "check"
    /\ Remediated
    /\ result.tests_pass = FALSE /\ result.lint_ok = TRUE
    /\ Len(result.tasks) = 3
    /\ LastCall = "append_history"

\* ---------------------------------------------------------------- C24

\* the round is past its remediation step, entered or not
PastRemediation == op_pc \in {"record", "history"}

SomeCheckFailed == ~(tests_pass /\ lint_ok /\ type_ok)

\* C24: in a round where at least one check failed, select_action and the fix
\* applier are each called exactly once, select first, and the applier is given
\* the action select returned, which is one of the configured strategies, and
\* the context select was given; in a round where all checks passed neither is
\* called.
C24_RemediationIffFailure ==
    [](PastRemediation =>
           IF SomeCheckFailed
           THEN /\ Len(fix_calls) = 2
                /\ fix_calls[1].fn = "select_action"
                /\ fix_calls[2].fn = "apply_fix_strategy"
                /\ fix_calls[1].returned \in STRATEGIES
                /\ fix_calls[2].action = fix_calls[1].returned
                /\ fix_calls[2].context = fix_calls[1].context
                /\ Times("select_action") = 1 /\ Times("apply_fix_strategy") = 1
           ELSE /\ fix_calls = <<>>
                /\ Times("select_action") = 0 /\ Times("apply_fix_strategy") = 0)

C24_Witness ==
    /\ PastRemediation
    /\ tests_pass /\ lint_ok /\ ~type_ok
    /\ Len(fix_calls) = 2
    /\ fix_calls[2].action = "run_formatter_then_patch"

\* ---------------------------------------------------------------- C25

\* the err_type of a context handed to select_action or apply_fix_strategy
ErrTypeOf(c) ==
    LET found == {p \in Items(c) : p[1] = "err_type"}
    IN  IF found = {} THEN None ELSE (CHOOSE p \in found : TRUE)[2]

\* a round's remediation calls have been made
Selected == Len(fix_calls) >= 1 /\ op_pc \in {"apply", "record", "history"}

\* C25: the err_type of the context handed to select and to the fix applier is
\* the first failing check in the order tests, lint, type-check: "tests" when
\* the tests fail, else "lint" when lint fails, else, when only the type check
\* fails, an error type of its own that names the type check.
C25_FirstFailingCheck ==
    Selected =>
        \A i \in 1 .. Len(fix_calls) :
            LET e == ErrTypeOf(fix_calls[i].context)
            IN  /\ ~tests_pass => e = "tests"
                /\ (tests_pass /\ ~lint_ok) => e = "lint"
                /\ (tests_pass /\ lint_ok /\ ~type_ok) => e \notin {"tests", "lint", None}

\* what operate builds: "tests" when the tests fail and "lint" in every other
\* failing combination, the one where only the type check fails included
C25_TypeFailureCalledLint ==
    Selected =>
        \A i \in 1 .. Len(fix_calls) :
            ErrTypeOf(fix_calls[i].context) = (IF ~tests_pass THEN "tests" ELSE "lint")

\* ---------------------------------------------------------------- C26

\* the round of operate has run its checks and still holds their outcomes
Verified == op_pc \in {"score", "fix", "apply", "record", "history"}

Pass(rc) == rc = 0

\* C26: the Round Controller and the Reviewer each run all three checks, pytest,
\* ruff and mypy, once each and whatever the other two give, and each of the
\* three booleans is the pass (exit code 0) of its own check.
C26_AllChecksRun ==
    [](/\ Verified =>
             /\ Len(checks) = 3
             /\ op_pc = "score" =>
                   SubSeq(trace, Len(trace) - 2, Len(trace))
                       = <<"run_tests:pytest", "run_tests:ruff", "run_tests:mypy">>
             /\ tests_pass = Pass(checks[1])
             /\ lint_ok = Pass(checks[2])
             /\ type_ok = Pass(checks[3])
       /\ InCo =>
             /\ Len(qc_runs) = Len(reviewed)
             /\ Len(Rounds) <= Len(qc_runs)
             /\ \A i \in 1 .. Len(Rounds) :
                   LET q == Rounds[i].review.quality
                   IN  /\ Len(qc_runs[i]) = 3
                       /\ q.tests_ok = Pass(qc_runs[i][1])
                       /\ q.lint_ok = Pass(qc_runs[i][2])
                       /\ q.type_ok = Pass(qc_runs[i][3]))

\* the tests fail and the two later checks still run and pass, in a round of
\* operate ...
C26_WitnessRound == Verified /\ checks = <<1, 0, 0>> /\ ~tests_pass /\ lint_ok /\ type_ok

\* ... and in a review
C26_Witness ==
    /\ InCo /\ Len(Rounds) = 2
    /\ qc_runs[1] = <<1, 0, 0>> /\ qc_runs[2] = <<0, 1, 0>>
    /\ Rounds[1].review.quality.lint_ok /\ Rounds[1].review.quality.type_ok
    /\ ~Rounds[1].review.quality.tests_ok

\* ---------------------------------------------------------------- C27

KnownTools == {"code", "fs", "shell"}

UnknownTool(t) == t.tool \notin KnownTools

\* an entry of a round's task results says that its task failed
MarkedFailed(res) == Get(res, "ok", TRUE) = FALSE

\* C27: a task with an unknown tool does not abort the round: the tasks after it
\* are processed in list order and the checks run; and the task is in the
\* round's task results marked as failed, in a round of operate as in a build
\* of the coordinator.
C27_UnknownToolMarkedFailed ==
    /\ Verified => results = plan
    /\ rg_pc = "check" =>
          \A i \in 1 .. Len(result.tasks) :
              UnknownTool(result.tasks[i]) => MarkedFailed(result.tasks[i])
    /\ \A k \in 1 .. Len(Rounds) :
          LET p == Rounds[k].plan
              b == Rounds[k].build.results
          IN  /\ Len(b) = Len(p)
              /\ \A i \in 1 .. Len(p) :
                    b[i].id = p[i].id /\ (UnknownTool(p[i]) => MarkedFailed(b[i]))

\* what the rounds do with an unknown tool: both go on through the task list and
\* to the checks; the builder's entry for the task has ok false and a reason,
\* while operate's entry is the task itself as planned, with no field that
\* tells it from a task that was carried out
C27_UnknownToolGoesOn ==
    /\ Verified => results = plan
    /\ rg_pc = "check" =>
          /\ Len(checks) = 3
          /\ \A i \in 1 .. Len(result.tasks) :
                DOMAIN result.tasks[i] = {"id", "desc", "tool", "args"}
    /\ \A k \in 1 .. Len(Rounds) :
          LET p == Rounds[k].plan
              b == Rounds[k].build.results
          IN  /\ Len(b) = Len(p)
              /\ \A i \in 1 .. Len(p) :
                    /\ b[i].id = p[i].id
                    /\ UnknownTool(p[i]) =>
                          (~b[i].ok /\ b[i].reason = <<"unknown tool ", p[i].tool>>)
              /\ "quality" \in DOMAIN Rounds[k].review

\* a round of operate over a plan whose first task has an unknown tool: all
\* three tasks are in the results and the checks have run
C27_UnknownToolRound ==
    /\ rg_pc = "check"
    /\ Len(result.tasks) = 3
    /\ UnknownTool(result.tasks[1])
    /\ Len(checks) = 3

\* ---------------------------------------------------------------- C28

CheckFields == {"tests_pass", "lint_ok", "type_ok"}

RecordFields == {"goal", "tasks", "tests_pass", "lint_ok", "type_ok", "reward", "elapsed", "ts"}

\* C28: a run_goal with max_retries <= 0 calls operate not once, makes no
\* collaborator call and leaves history, store, bandit and clock as they were,
\* and what it returns is empty, without tests_pass, lint_ok or type_ok; a
\* run_goal with max_retries >= 1 returns a round record.
C28_NoRoundNoRecord ==
    [](/\ (InRunGoal /\ max_retries <= 0) =>
             /\ op_calls = 0 /\ plan_calls = <<>> /\ trace = <<>> /\ rg_rounds = <<>>
             /\ history = <<>> /\ store = <<>> /\ bandit = FreshBandit /\ now = 0
             /\ op_pc = "idle"
             /\ rg_pc # "raised"
             /\ result = << >>
             /\ DOMAIN result \cap CheckFields = {}
       /\ (rg_pc = "returned" /\ max_retries >= 1) =>
             /\ op_calls >= 1
             /\ DOMAIN result = RecordFields
             /\ result = rg_rounds[Len(rg_rounds)])

C28_Witness == rg_pc = "returned" /\ max_retries = 0 /\ result = << >> /\ op_calls = 0

C28_WitnessNegative == rg_pc = "returned" /\ max_retries = -1 /\ result = << >>

\* ---------------------------------------------------------------- C29

\* the rounds of the current run_goal that have completed
Completed == Len(rg_rounds)

\* C29: every completed round appends one entry to the end of the history and
\* leaves the earlier entries as they were and in their order: after n completed
\* rounds the history, empty before, holds the n records the rounds returned, in
\* round order, and its last entry is the record the last round handed to
\* run_goal, which run_goal returns.
C29_HistoryAppendOnly ==
    [](InRunGoal =>
           /\ Len(history) = Completed
           /\ history = rg_rounds
           /\ \A i \in 1 .. Completed - 1 : history[i].ts < history[i + 1].ts
           /\ Completed >= 1 => result = history[Len(history)]
           /\ rg_pc = "returned" => Completed = op_calls)

C29_Witness ==
    /\ rg_pc = "returned"
    /\ Len(history) = 3
    /\ history[1] # history[2] /\ history[2] # history[3]
    /\ ~history[1].tests_pass /\ history[3].tests_pass
    /\ result = history[3]

\* ---------------------------------------------------------------- C30

\* the rounds of the coordinator whose review has returned
ReviewsFinished == IF co_pc \in {"plan", "build", "review", "raised"} THEN r - 1 ELSE r

RoundFields == {"round", "plan", "build", "review"}

\* C30: the rounds list of the summary holds one record for each round whose
\* review has finished, in round order, the i-th with round index i and with a
\* plan, a build and a review; and the goal of the summary is the goal
\* run_multi_agent was called with, also once the working goal has been extended.
C30_SummaryRounds ==
    [](InCo =>
           /\ Len(summary.rounds) = Max(ReviewsFinished, 0)
           /\ \A i \in 1 .. Len(summary.rounds) :
                 /\ summary.rounds[i].round = i
                 /\ DOMAIN summary.rounds[i] = RoundFields
                 /\ Len(summary.rounds[i].build.results) = Len(summary.rounds[i].plan)
                 /\ "quality" \in DOMAIN summary.rounds[i].review
           /\ co_pc = "decide" => summary.rounds[r] = round_rec
           /\ summary.goal = TheGoal
           /\ DOMAIN summary = {"goal", "rounds"})

C30_Witness ==
    /\ co_pc = "returned"
    /\ Len(summary.rounds) = 2
    /\ summary.rounds[1] # summary.rounds[2]
    /\ co_goal # TheGoal
    /\ summary.goal = TheGoal

====
